---- MODULE Spec2Model ----
(***************************************************************************)
(* CPM scheduling engine of DABO: scheduling/cpm_engine.py,                *)
(* scheduling/predecessor_logic.py and scheduling/schedule_export.py.      *)
(*                                                                         *)
(* An activity list is drawn in Init; the actions are the engine's         *)
(* functions, called directly (as the tests do) or as the steps of         *)
(* generate_schedule.  Every function is an operator computed the way the  *)
(* Python code computes it: loops are recursions over the same indices,    *)
(* dicts are functions, lists are sequences.                               *)
(***************************************************************************)
EXTENDS Integers, Sequences, FiniteSets, TLC

\* ------------------------------------------------------------------------
\* Bounds of the model
\* ------------------------------------------------------------------------
MaxActs == 3          \* activities in a list
MaxEdges == 3         \* predecessor entries in a list of the structure family
MaxTimedEdges == 2    \* predecessor entries in a list of the timing family
MaxDur == 1           \* largest duration of the timing family
MaxLag == 1           \* largest |lag| of the timing family

IdPool == <<"A", "B", "C", "D", "E">>
MissingId == "X"      \* an id no activity of a list carries
BadRel == "XX"        \* a relationship type outside FS/SS/FF/SF

\* ------------------------------------------------------------------------
\* Small helpers for Python idioms
\* ------------------------------------------------------------------------
\* x in list
InSeq(x, s) == \E i \in 1..Len(s) : s[i] = x

\* dict.get(key, default)
Get(d, key, default) == IF key \in DOMAIN d THEN d[key] ELSE default

Max2(a, b) == IF a >= b THEN a ELSE b
Min2(a, b) == IF a <= b THEN a ELSE b

\* ------------------------------------------------------------------------
\* Activity (cpm_engine.py, dataclass Activity) and add_predecessor
\* ------------------------------------------------------------------------
Activity(id, dur, preds) ==
    [activity_id |-> id, activity_name |-> id, wbs |-> "",
     duration |-> dur, predecessors |-> preds,
     successors |-> <<>>,
     early_start |-> 0, early_finish |-> 0,
     late_start |-> 0, late_finish |-> 0,
     total_float |-> 0, is_critical |-> FALSE, is_milestone |-> FALSE]

PredEntry(pred_id, rel_type, lag) ==
    [activity_id |-> pred_id, rel_type |-> rel_type, lag |-> lag]

\* act_map = {a.activity_id: a for a in activities}: the id of every
\* activity, mapped to the position of the last activity carrying it.
ActMap(acts) ==
    [id \in {acts[i].activity_id : i \in 1..Len(acts)} |->
        CHOOSE i \in 1..Len(acts) :
            /\ acts[i].activity_id = id
            /\ \A k \in 1..Len(acts) : acts[k].activity_id = id => k <= i]

\* ------------------------------------------------------------------------
\* predecessor_logic.py: validate_predecessors
\* ------------------------------------------------------------------------
ValidRels == {"FS", "SS", "FF", "SF"}

\* The f-strings of the three messages, as the sequences of their pieces.
MsgNonexistent(act_id, pid) ==
    <<"Activity ", act_id, " references nonexistent predecessor ", pid>>
MsgSelf(act_id) ==
    <<"Activity ", act_id, " references itself as predecessor">>
MsgBadRel(act_id, rel) ==
    <<"Activity ", act_id, ": invalid relationship type '", rel, "'">>

\* A validator whose checks are an if/elif chain: the first violation only.
EntryErrors_FirstOnly(act, pred, act_ids) ==
    LET pid == pred.activity_id IN
    IF pid \notin act_ids
    THEN <<MsgNonexistent(act.activity_id, pid)>>
    ELSE IF pid = act.activity_id
    THEN <<MsgSelf(act.activity_id)>>
    ELSE IF Get(pred, "rel_type", "FS") \notin ValidRels
    THEN <<MsgBadRel(act.activity_id, Get(pred, "rel_type", "None"))>>
    ELSE <<>>

\* The body of the inner loop: the messages one predecessor entry appends.
EntryErrors(act, pred, act_ids) ==
    LET pid == pred.activity_id IN
    (IF pid \notin act_ids
        THEN <<MsgNonexistent(act.activity_id, pid)>> ELSE <<>>)
    \o (IF pid = act.activity_id
        THEN <<MsgSelf(act.activity_id)>> ELSE <<>>)
    \o (IF Get(pred, "rel_type", "FS") \notin ValidRels
        THEN <<MsgBadRel(act.activity_id, Get(pred, "rel_type", "None"))>>
        ELSE <<>>)

RECURSIVE ValidateFrom(_, _, _, _)
ValidateFrom(acts, i, j, errors) ==
    IF i > Len(acts) THEN errors
    ELSE IF j > Len(acts[i].predecessors)
         THEN ValidateFrom(acts, i + 1, 1, errors)
    ELSE ValidateFrom(acts, i, j + 1,
            errors \o EntryErrors(acts[i], acts[i].predecessors[j],
                                  {acts[k].activity_id : k \in 1..Len(acts)}))

validate_predecessors(acts) == ValidateFrom(acts, 1, 1, <<>>)

\* ------------------------------------------------------------------------
\* predecessor_logic.py: detect_cycles
\* ------------------------------------------------------------------------
\* The state the nested dfs shares with its caller: the two sets, and whether
\* a call has returned True.
RECURSIVE dfs(_, _, _)
RECURSIVE dfsPreds(_, _, _, _)

dfsPreds(acts, preds, j, st) ==
    IF j > Len(preds) THEN st
    ELSE LET pid == preds[j].activity_id IN
         IF pid \notin st.visited
         THEN LET r == dfs(acts, pid, st) IN
              IF r.found THEN r ELSE dfsPreds(acts, preds, j + 1, r)
         ELSE IF pid \in st.rec_stack
         THEN [st EXCEPT !.found = TRUE]
         ELSE dfsPreds(acts, preds, j + 1, st)

\* A dfs that never takes an id off the recursion stack.
dfs_NoDiscard(acts, act_id, st) ==
    LET entered == [visited |-> st.visited \cup {act_id},
                    rec_stack |-> st.rec_stack \cup {act_id},
                    found |-> FALSE]
        act_map == ActMap(acts)
    IN IF act_id \in DOMAIN act_map
       THEN dfsPreds(acts, acts[act_map[act_id]].predecessors, 1, entered)
       ELSE entered

dfs(acts, act_id, st) ==
    LET entered == [visited |-> st.visited \cup {act_id},
                    rec_stack |-> st.rec_stack \cup {act_id},
                    found |-> FALSE]
        act_map == ActMap(acts)
        r == IF act_id \in DOMAIN act_map
             THEN dfsPreds(acts, acts[act_map[act_id]].predecessors, 1, entered)
             ELSE entered
    IN IF r.found THEN r
       ELSE [r EXCEPT !.rec_stack = @ \ {act_id}]

RECURSIVE DetectFrom(_, _, _)
DetectFrom(acts, i, st) ==
    IF i > Len(acts) THEN FALSE
    ELSE IF acts[i].activity_id \notin st.visited
         THEN LET r == dfs(acts, acts[i].activity_id, st) IN
              IF r.found THEN TRUE ELSE DetectFrom(acts, i + 1, r)
    ELSE DetectFrom(acts, i + 1, st)

detect_cycles(acts) ==
    DetectFrom(acts, 1, [visited |-> {}, rec_stack |-> {}, found |-> FALSE])

\* ------------------------------------------------------------------------
\* cpm_engine.py: compute_cpm, "Build successor lists"
\* ------------------------------------------------------------------------
RECURSIVE BuildSuccessorsFrom(_, _, _)
BuildSuccessorsFrom(acts, i, j) ==
    IF i > Len(acts) THEN acts
    ELSE IF j > Len(acts[i].predecessors)
         THEN BuildSuccessorsFrom(acts, i + 1, 1)
    ELSE LET act_map == ActMap(acts)
             pid == acts[i].predecessors[j].activity_id
         IN IF /\ pid \in DOMAIN act_map
               /\ ~InSeq(acts[i].activity_id, acts[act_map[pid]].successors)
            THEN BuildSuccessorsFrom(
                    [acts EXCEPT ![act_map[pid]].successors =
                                     Append(@, acts[i].activity_id)], i, j + 1)
            ELSE BuildSuccessorsFrom(acts, i, j + 1)

BuildSuccessors(acts) == BuildSuccessorsFrom(acts, 1, 1)

\* ------------------------------------------------------------------------
\* cpm_engine.py: _topological_sort
\* ------------------------------------------------------------------------
\* in_degree[act] after the counting loop: one per predecessor entry whose
\* id is in act_map.
InDegreeOf(act, act_map) ==
    Cardinality({j \in 1..Len(act.predecessors) :
                    act.predecessors[j].activity_id \in DOMAIN act_map})

InitialInDegree(acts) ==
    LET act_map == ActMap(acts) IN
    [id \in DOMAIN act_map |-> InDegreeOf(acts[act_map[id]], act_map)]

\* queue = [aid for aid, deg in in_degree.items() if deg == 0]; the dict is
\* in insertion order, which is the order of the list.
RECURSIVE InitialQueueFrom(_, _, _)
InitialQueueFrom(acts, in_degree, i) ==
    IF i > Len(acts) THEN <<>>
    ELSE (IF in_degree[acts[i].activity_id] = 0
             /\ \A k \in 1..(i - 1) : acts[k].activity_id # acts[i].activity_id
          THEN <<acts[i].activity_id>> ELSE <<>>)
         \o InitialQueueFrom(acts, in_degree, i + 1)

\* for succ_id in act.successors: in_degree[succ_id] -= 1; enqueue at zero
RECURSIVE ReleaseSuccessors(_, _, _, _)
ReleaseSuccessors(succs, k, in_degree, queue) ==
    IF k > Len(succs) THEN [in_degree |-> in_degree, queue |-> queue]
    ELSE LET deg == in_degree[succs[k]] - 1 IN
         ReleaseSuccessors(succs, k + 1,
            [in_degree EXCEPT ![succs[k]] = deg],
            IF deg = 0 THEN Append(queue, succs[k]) ELSE queue)

\* while queue: ...
RECURSIVE KahnLoop(_, _, _, _)
KahnLoop(acts, in_degree, queue, order) ==
    IF queue = <<>> THEN order
    ELSE LET current == Head(queue)
             act == acts[ActMap(acts)[current]]
             r == ReleaseSuccessors(act.successors, 1, in_degree, Tail(queue))
         IN KahnLoop(acts, r.in_degree, r.queue, Append(order, current))

\* An append of the unreached activities from the end of the list backwards.
RECURSIVE AppendUnreached_Reversed(_, _, _)
AppendUnreached_Reversed(acts, i, order) ==
    IF i > Len(acts) THEN order
    ELSE LET rest == AppendUnreached_Reversed(acts, i + 1, order)
         IN  IF InSeq(acts[i].activity_id, rest) THEN rest
             ELSE Append(rest, acts[i].activity_id)

\* "Add any activities not reached (disconnected)"
RECURSIVE AppendUnreached(_, _, _)
AppendUnreached(acts, i, order) ==
    IF i > Len(acts) THEN order
    ELSE AppendUnreached(acts, i + 1,
            IF InSeq(acts[i].activity_id, order) THEN order
            ELSE Append(order, acts[i].activity_id))

_topological_sort(acts) ==
    LET in_degree == InitialInDegree(acts) IN
    AppendUnreached(acts, 1,
        KahnLoop(acts, in_degree, InitialQueueFrom(acts, in_degree, 1), <<>>))

\* ------------------------------------------------------------------------
\* cpm_engine.py: compute_cpm, forward pass
\* ------------------------------------------------------------------------
\* The candidate early start one predecessor entry gives.
ForwardCandidate(act, pred, pred_act) ==
    LET rel == Get(pred, "rel_type", "FS")
        lag == Get(pred, "lag", 0)
    IN IF rel = "FS" THEN pred_act.early_finish + lag
       ELSE IF rel = "SS" THEN pred_act.early_start + lag
       ELSE IF rel = "FF" THEN pred_act.early_finish + lag - act.duration
       ELSE pred_act.early_finish + lag

\* max_es = 0; for pred in act.predecessors: ... max_es = max(max_es, es)
RECURSIVE MaxEarlyStart(_, _, _, _)
MaxEarlyStart(acts, act, j, max_es) ==
    IF j > Len(act.predecessors) THEN max_es
    ELSE LET pred == act.predecessors[j]
             act_map == ActMap(acts)
         IN IF pred.activity_id \notin DOMAIN act_map
            THEN MaxEarlyStart(acts, act, j + 1, max_es)
            ELSE MaxEarlyStart(acts, act, j + 1,
                    Max2(max_es, ForwardCandidate(act, pred,
                                    acts[act_map[pred.activity_id]])))

EarlyStartOf(acts, act) ==
    IF act.predecessors = <<>> THEN 0
    ELSE MaxEarlyStart(acts, act, 1, 0)

\* A forward pass that forgets the duration.
EarlyFinishOf_NoDuration(act, early_start) == early_start

EarlyFinishOf(act, early_start) == early_start + act.duration

RECURSIVE ForwardPass(_, _, _)
ForwardPass(acts, order, k) ==
    IF k > Len(order) THEN acts
    ELSE LET i == ActMap(acts)[order[k]]
             es == EarlyStartOf(acts, acts[i])
         IN ForwardPass(
                [acts EXCEPT ![i].early_start = es,
                             ![i].early_finish = EarlyFinishOf(acts[i], es)],
                order, k + 1)

\* ------------------------------------------------------------------------
\* cpm_engine.py: compute_cpm, backward pass
\* ------------------------------------------------------------------------
RECURSIVE MaxEarlyFinish(_, _)
MaxEarlyFinish(acts, i) ==
    IF i = Len(acts) THEN acts[i].early_finish
    ELSE Max2(acts[i].early_finish, MaxEarlyFinish(acts, i + 1))

\* An anchor taken from the last activity of the list alone.
ProjectFinish_LastOnly(acts) == acts[Len(acts)].early_finish

ProjectFinish(acts) == MaxEarlyFinish(acts, 1)

\* A backward candidate that takes every entry for FS.
BackwardCandidate_AssumeFS(act, pred, succ) ==
    succ.late_start - Get(pred, "lag", 0)

\* The candidate late finish one predecessor entry of a successor gives.
BackwardCandidate(act, pred, succ) ==
    LET rel == Get(pred, "rel_type", "FS")
        lag == Get(pred, "lag", 0)
    IN IF rel = "FS" THEN succ.late_start - lag
       ELSE IF rel = "SS" THEN succ.late_start - lag + act.duration
       ELSE IF rel = "FF" THEN succ.late_finish - lag
       ELSE succ.late_start - lag

\* for pred in succ.predecessors: if pred names act: ...; break
RECURSIVE MinOverEntry(_, _, _, _)
MinOverEntry(act, succ, j, min_lf) ==
    IF j > Len(succ.predecessors) THEN min_lf
    ELSE IF succ.predecessors[j].activity_id = act.activity_id
         THEN Min2(min_lf, BackwardCandidate(act, succ.predecessors[j], succ))
    ELSE MinOverEntry(act, succ, j + 1, min_lf)

\* for succ_id in act.successors: ...
RECURSIVE MinLateFinish(_, _, _, _)
MinLateFinish(acts, act, k, min_lf) ==
    IF k > Len(act.successors) THEN min_lf
    ELSE LET act_map == ActMap(acts) IN
         IF act.successors[k] \notin DOMAIN act_map
         THEN MinLateFinish(acts, act, k + 1, min_lf)
         ELSE MinLateFinish(acts, act, k + 1,
                MinOverEntry(act, acts[act_map[act.successors[k]]], 1, min_lf))

\* A backward pass that anchors an activity without successors at its own
\* early finish.
LateFinishOf_OwnFinish(acts, act, project_finish) ==
    IF act.successors = <<>> THEN act.early_finish
    ELSE MinLateFinish(acts, act, 1, project_finish)

LateFinishOf(acts, act, project_finish) ==
    IF act.successors = <<>> THEN project_finish
    ELSE MinLateFinish(acts, act, 1, project_finish)

\* A late start that forgets the duration.
LateStartOf_NoDuration(act, late_finish) == late_finish

LateStartOf(act, late_finish) == late_finish - act.duration
TotalFloatOf(late_start, early_start) == late_start - early_start
\* A classifier that takes every activity without slack for critical.
IsCriticalOf_NoSlack(total_float) == total_float <= 0

IsCriticalOf(total_float) == total_float = 0

\* for act_id in reversed(order): ...
RECURSIVE BackwardPass(_, _, _, _)
BackwardPass(acts, order, k, project_finish) ==
    IF k < 1 THEN acts
    ELSE LET i == ActMap(acts)[order[k]]
             lf == LateFinishOf(acts, acts[i], project_finish)
             ls == LateStartOf(acts[i], lf)
             tf == TotalFloatOf(ls, acts[i].early_start)
         IN BackwardPass(
                [acts EXCEPT ![i].late_finish = lf,
                             ![i].late_start = ls,
                             ![i].total_float = tf,
                             ![i].is_critical = IsCriticalOf(tf)],
                order, k - 1, project_finish)

\* ------------------------------------------------------------------------
\* cpm_engine.py: compute_cpm and get_critical_path
\* ------------------------------------------------------------------------
\* The order compute_cpm works in: the sort runs on the list with its
\* successor lists built.
CpmOrder(acts) == _topological_sort(BuildSuccessors(acts))

\* A compute_cpm that returns the activities in processing order.
compute_cpm_InProcessingOrder(acts) ==
    IF acts = <<>> THEN acts
    ELSE LET linked == BuildSuccessors(acts)
             order == _topological_sort(linked)
             forward == ForwardPass(linked, order, 1)
             done == BackwardPass(forward, order, Len(order), ProjectFinish(forward))
         IN [k \in 1..Len(order) |-> done[ActMap(done)[order[k]]]]

compute_cpm(acts) ==
    IF acts = <<>> THEN acts
    ELSE LET linked == BuildSuccessors(acts)
             order == _topological_sort(linked)
             forward == ForwardPass(linked, order, 1)
         IN BackwardPass(forward, order, Len(order), ProjectFinish(forward))

get_critical_path(acts) == SelectSeq(acts, LAMBDA a : a.is_critical)

\* ------------------------------------------------------------------------
\* cpm_engine.py: day_to_date
\* ------------------------------------------------------------------------
\* A date is its proleptic ordinal (date.toordinal(): day 1 is a Monday);
\* datetime.weekday() has Monday = 0 ... Sunday = 6.
Weekday(d) == (d + 6) % 7

\* A loop that takes only Sunday for the weekend.
RECURSIVE DayLoop_SundayOnly(_, _, _, _)
DayLoop_SundayOnly(current, days_added, day_number, skip) ==
    IF ~(days_added < day_number) THEN current
    ELSE IF skip /\ Weekday(current + 1) > 5
         THEN DayLoop_SundayOnly(current + 1, days_added, day_number, skip)
    ELSE DayLoop_SundayOnly(current + 1, days_added + 1, day_number, skip)

\* while days_added < day_number: ...
RECURSIVE DayLoop(_, _, _, _)
DayLoop(current, days_added, day_number, skip) ==
    IF ~(days_added < day_number) THEN current
    ELSE IF skip /\ Weekday(current + 1) >= 5
         THEN DayLoop(current + 1, days_added, day_number, skip)
    ELSE DayLoop(current + 1, days_added + 1, day_number, skip)

\* A mapper whose counter starts at one.
day_to_date_CounterFromOne(day_number, start, skip) ==
    DayLoop(start, 1, day_number, skip)

day_to_date(day_number, start, skip) == DayLoop(start, 0, day_number, skip)

\* ------------------------------------------------------------------------
\* cpm_engine.py: Activity.to_dict, activities_to_export
\* ------------------------------------------------------------------------
\* strftime("%Y-%m-%d"): the year, month and day of the date of an ordinal,
\* found as datetime finds them; the string is its three zero-padded fields.
DaysBeforeMonth == <<0, 31, 59, 90, 120, 151, 181, 212, 243, 273, 304, 334>>

strftime(ordinal) ==
    LET n0 == ordinal - 1
        n400 == n0 \div 146097
        r400 == n0 % 146097
        n100 == r400 \div 36524
        r100 == r400 % 36524
        n4 == r100 \div 1461
        r4 == r100 % 1461
        n1 == r4 \div 365
        n == r4 % 365
        year == n400 * 400 + 1 + n100 * 100 + n4 * 4 + n1
    IN  IF n1 = 4 \/ n100 = 4 THEN <<year - 1, 12, 31>>
        ELSE LET leapyear == n1 = 3 /\ (n4 # 24 \/ n100 = 3)
                 leap(m) == IF m > 2 /\ leapyear THEN 1 ELSE 0
                 guess == (n + 50) \div 32
                 month == IF DaysBeforeMonth[guess] + leap(guess) > n
                          THEN guess - 1 ELSE guess
             IN  <<year, month, n - (DaysBeforeMonth[month] + leap(month)) + 1>>

to_dict(act) ==
    [activity_id |-> act.activity_id, activity_name |-> act.activity_name,
     wbs |-> act.wbs, duration |-> act.duration,
     predecessors |-> act.predecessors,
     early_start |-> act.early_start, early_finish |-> act.early_finish,
     late_start |-> act.late_start, late_finish |-> act.late_finish,
     total_float |-> act.total_float, is_critical |-> act.is_critical,
     is_milestone |-> act.is_milestone]

\* One row: the four day numbers replaced by date strings; day_to_date is
\* called with its default, skip_weekends = True.
ExportRow(act, start) ==
    [to_dict(act) EXCEPT
        !.early_start = strftime(day_to_date(act.early_start, start, TRUE)),
        !.early_finish = strftime(day_to_date(act.early_finish, start, TRUE)),
        !.late_start = strftime(day_to_date(act.late_start, start, TRUE)),
        !.late_finish = strftime(day_to_date(act.late_finish, start, TRUE))]

activities_to_export(acts, start) ==
    [k \in 1..Len(acts) |-> ExportRow(acts[k], start)]

\* The Monday the tests start from, datetime(2026, 3, 2).
TestMonday == 739677

\* ------------------------------------------------------------------------
\* wbs_builder.py: WBSNode, build_wbs
\* ------------------------------------------------------------------------
\* A node holds its activities by reference: here, by position in the list
\* the tree was built from, so that a read sees the objects as they are now.
WBSNode(code, name, level, refs, children) ==
    [code |-> code, name |-> name, level |-> level,
     activities |-> refs, children |-> children]

RECURSIVE SumDurations(_, _, _)
SumDurations(refs, acts, k) ==
    IF k > Len(refs) THEN 0
    ELSE acts[refs[k]].duration + SumDurations(refs, acts, k + 1)

\* WBSNode.total_duration (property)
RECURSIVE total_duration(_, _)
RECURSIVE ChildDurations(_, _, _)
ChildDurations(children, acts, k) ==
    IF k > Len(children) THEN 0
    ELSE total_duration(children[k], acts) + ChildDurations(children, acts, k + 1)

total_duration(node, acts) ==
    SumDurations(node.activities, acts, 1) + ChildDurations(node.children, acts, 1)

\* WBSNode.activity_count (property)
RECURSIVE activity_count(_)
RECURSIVE ChildCounts(_, _)
ChildCounts(children, k) ==
    IF k > Len(children) THEN 0
    ELSE activity_count(children[k]) + ChildCounts(children, k + 1)

activity_count(node) == Len(node.activities) + ChildCounts(node.children, 1)

\* The division codes of the model, in the order sorted() gives strings;
\* "99" is no key of _DIV_NAMES.
DivCodes == <<"01", "03", "99">>

DivName(div_code) ==
    IF div_code = "01" THEN <<"General Requirements">>
    ELSE IF div_code = "03" THEN <<"Concrete">>
    ELSE <<"Division ", div_code>>

\* div = act.wbs if act.wbs else "01"
DivOf(act) == IF act.wbs = "" THEN "01" ELSE act.wbs

\* A grouping that assigns instead of appending: a division keeps only the
\* last of its activities.
by_div_KeepLast(acts, div_code) ==
    LET all == SelectSeq([i \in 1..Len(acts) |-> i],
                         LAMBDA i : DivOf(acts[i]) = div_code)
    IN  IF all = <<>> THEN <<>> ELSE <<all[Len(all)]>>

\* by_div[div_code] after the grouping loop: the activities of the division,
\* in list order.
by_div(acts, div_code) ==
    SelectSeq([i \in 1..Len(acts) |-> i], LAMBDA i : DivOf(acts[i]) = div_code)

\* sorted(by_div.keys())
SortedDivKeys(acts) ==
    SelectSeq(DivCodes, LAMBDA c : by_div(acts, c) # <<>>)

build_wbs(acts) ==
    LET keys == SortedDivKeys(acts)
    IN  WBSNode("00", <<"Project">>, 0, <<>>,
                [k \in 1..Len(keys) |->
                    WBSNode(keys[k], DivName(keys[k]), 1, by_div(acts, keys[k]), <<>>)])

\* ------------------------------------------------------------------------
\* State
\* ------------------------------------------------------------------------
VARIABLES
    activities,   \* the list of Activity objects the caller holds
    pc,           \* where the caller is
    errors,       \* what validate_predecessors returned
    has_cycle,    \* what detect_cycles returned
    order,        \* compute_cpm's local `order`
    critical,     \* what get_critical_path returned
    result,       \* what generate_schedule returned
    calls,        \* the engine functions called so far, in order
    day_number,   \* day_to_date's arguments ...
    start_date,
    skip_weekends,
    date,         \* ... and what it returned
    wbs,          \* the tree build_wbs returned
    edits         \* how often the caller has edited a predecessor list

calendar_vars == <<day_number, start_date, skip_weekends, date>>

vars == <<activities, pc, errors, has_cycle, order, critical, result, calls,
          calendar_vars, wbs, edits>>

NoResult == [pending |-> TRUE]
NoTree == [pending |-> TRUE]

\* ------------------------------------------------------------------------
\* Activity lists the caller may hold
\* ------------------------------------------------------------------------
\* The predecessor entries of a list, flattened: entry k belongs to the
\* activity at position owner[k]; the entries of one activity are adjacent.
Owners(n, k) ==
    {o \in [1..k -> 1..n] : \A a, b \in 1..k : a <= b => o[a] <= o[b]}

PredecessorsAt(i, owner, entry) ==
    SelectSeq([k \in 1..Len(owner) |-> <<owner[k], entry[k]>>],
              LAMBDA e : e[1] = i)

\* The list of n activities with ids IdPool[1..n], durations d and the
\* flattened predecessor entries (owner, entry).
ActivityList(n, d, owner, entry) ==
    [i \in 1..n |->
        Activity(IdPool[i], d[i],
                 LET mine == PredecessorsAt(i, owner, entry)
                 IN [k \in 1..Len(mine) |-> mine[k][2]])]

\* `acts` is a list of n activities with durations from durs and at most m
\* predecessor entries drawn from entries.
IsActivityList(acts, n, durs, entries, m) ==
    \E k \in 0..m : \E owner \in Owners(n, k) :
        \E entry \in [1..k -> entries] : \E d \in [1..n -> durs] :
            acts = ActivityList(n, d, owner, entry)

IdsOf(n) == {IdPool[i] : i \in 1..n}

\* Structure family: unit durations, FS or an invalid relationship type, no
\* lag, predecessor ids that may be missing from the list.
StructureEntries(n) ==
    {PredEntry(id, rel, 0) : id \in IdsOf(n) \cup {MissingId},
                             rel \in {"FS", BadRel}}

\* Timing family: every relationship type, lags and durations that vary.
\* Activity.duration is an unchecked int: a negative one is among them.
Durations == -1..MaxDur

TimingEntries(n) ==
    {PredEntry(id, rel, lag) : id \in IdsOf(n), rel \in ValidRels,
                               lag \in (0 - MaxLag)..MaxLag}

Init ==
    /\ \E n \in 0..MaxActs :
        \/ IsActivityList(activities, n, {1}, StructureEntries(n), MaxEdges)
        \/ IsActivityList(activities, n, Durations, TimingEntries(n),
                          MaxTimedEdges)
    /\ pc = "start"
    /\ errors = <<>>
    /\ has_cycle = FALSE
    /\ order = <<>>
    /\ critical = <<>>
    /\ result = NoResult
    /\ calls = <<>>
    /\ day_number = 0
    /\ start_date = TestMonday
    /\ skip_weekends = TRUE
    /\ date = start_date
    /\ wbs = NoTree
    /\ edits = 0

\* ------------------------------------------------------------------------
\* Direct calls of the engine's functions (tests/test_cpm_engine.py)
\* ------------------------------------------------------------------------
CallValidate ==
    /\ pc = "start"
    /\ errors' = validate_predecessors(activities)
    /\ calls' = Append(calls, "validate_predecessors")
    /\ pc' = "validate_returned"
    /\ UNCHANGED <<activities, has_cycle, order, critical, result>>
    /\ UNCHANGED <<calendar_vars, wbs, edits>>

CallDetectCycles ==
    /\ pc = "start"
    /\ has_cycle' = detect_cycles(activities)
    /\ calls' = Append(calls, "detect_cycles")
    /\ pc' = "detect_returned"
    /\ UNCHANGED <<activities, errors, order, critical, result>>
    /\ UNCHANGED <<calendar_vars, wbs, edits>>

CallComputeCpm ==
    /\ pc = "start"
    /\ activities' = compute_cpm(activities)
    /\ order' = IF activities = <<>> THEN <<>> ELSE CpmOrder(activities)
    /\ calls' = Append(calls, "compute_cpm")
    /\ pc' = "cpm_returned"
    /\ UNCHANGED <<errors, has_cycle, critical, result>>
    /\ UNCHANGED <<calendar_vars, wbs, edits>>

CallGetCriticalPath ==
    /\ pc = "cpm_returned"
    /\ critical' = get_critical_path(activities)
    /\ calls' = Append(calls, "get_critical_path")
    /\ pc' = "critical_returned"
    /\ UNCHANGED <<activities, errors, has_cycle, order, result>>
    /\ UNCHANGED <<calendar_vars, wbs, edits>>

\* ------------------------------------------------------------------------
\* schedule_export.py: generate_schedule, step by step
\* ------------------------------------------------------------------------
\* 2. Validate
GsValidate ==
    /\ pc = "start"
    /\ errors' = validate_predecessors(activities)
    /\ calls' = Append(calls, "validate_predecessors")
    /\ IF errors' # <<>>
       THEN /\ result' = [error |-> "Predecessor validation failed",
                          errors |-> errors']
            /\ pc' = "gs_returned"
       ELSE /\ result' = result
            /\ pc' = "gs_validated"
    /\ UNCHANGED <<activities, has_cycle, order, critical>>
    /\ UNCHANGED <<calendar_vars, wbs, edits>>

\* A generate_schedule that logs the cycle and carries on.
GsDetectCycles_NoAbort ==
    /\ pc = "gs_validated"
    /\ has_cycle' = detect_cycles(activities)
    /\ calls' = Append(calls, "detect_cycles")
    /\ pc' = "gs_cycle_checked"
    /\ UNCHANGED <<activities, errors, order, critical, result>>
    /\ UNCHANGED <<calendar_vars, wbs, edits>>

GsDetectCycles ==
    /\ pc = "gs_validated"
    /\ has_cycle' = detect_cycles(activities)
    /\ calls' = Append(calls, "detect_cycles")
    /\ IF has_cycle'
       THEN /\ result' = [error |-> "Circular dependency detected"]
            /\ pc' = "gs_returned"
       ELSE /\ result' = result
            /\ pc' = "gs_cycle_checked"
    /\ UNCHANGED <<activities, errors, order, critical>>
    /\ UNCHANGED <<calendar_vars, wbs, edits>>

\* 3. Run CPM
GsComputeCpm ==
    /\ pc = "gs_cycle_checked"
    /\ activities' = compute_cpm(activities)
    /\ order' = IF activities = <<>> THEN <<>> ELSE CpmOrder(activities)
    /\ calls' = Append(calls, "compute_cpm")
    /\ pc' = "gs_computed"
    /\ UNCHANGED <<errors, has_cycle, critical, result>>
    /\ UNCHANGED <<calendar_vars, wbs, edits>>

\* 4. Get critical path
GsCriticalPath ==
    /\ pc = "gs_computed"
    /\ critical' = get_critical_path(activities)
    /\ calls' = Append(calls, "get_critical_path")
    /\ pc' = "gs_critical"
    /\ UNCHANGED <<activities, errors, has_cycle, order, result>>
    /\ UNCHANGED <<calendar_vars, wbs, edits>>

\* 5., 6. and the summary
GsSummary ==
    /\ pc = "gs_critical"
    /\ calls' = calls \o <<"build_wbs", "activities_to_export">>
    /\ result' =
        [total_activities |-> Len(activities),
         critical_activities |-> Len(critical),
         project_duration_days |->
            IF activities # <<>> THEN ProjectFinish(activities) ELSE 0,
         critical_path |-> [k \in 1..Len(critical) |-> critical[k].activity_id]]
    /\ wbs' = build_wbs(activities)
    /\ pc' = "gs_returned"
    /\ UNCHANGED <<activities, errors, has_cycle, order, critical>>
    /\ UNCHANGED <<calendar_vars, edits>>

Next ==
    \/ CallValidate
    \/ CallDetectCycles
    \/ CallComputeCpm
    \/ CallGetCriticalPath
    \/ GsValidate
    \/ GsDetectCycles
    \/ GsComputeCpm
    \/ GsCriticalPath
    \/ GsSummary

Spec == Init /\ [][Next]_vars

\* ------------------------------------------------------------------------
\* The calendar mapper, called on its own (test_date_conversion)
\* ------------------------------------------------------------------------
MaxOffset == 6        \* largest working-day number mapped
MaxStartShift == 6    \* start dates run from the Sunday before TestMonday
                      \* to this many days after it

StartDates == (TestMonday - 1)..(TestMonday + MaxStartShift)

InitDate ==
    /\ activities = <<>>
    /\ pc = "calendar"
    /\ errors = <<>>
    /\ has_cycle = FALSE
    /\ order = <<>>
    /\ critical = <<>>
    /\ result = NoResult
    /\ calls = <<>>
    /\ day_number \in 0..MaxOffset
    /\ start_date \in StartDates
    /\ skip_weekends \in BOOLEAN
    /\ date = start_date
    /\ wbs = NoTree
    /\ edits = 0

CallDayToDate ==
    /\ pc = "calendar"
    /\ date' = day_to_date(day_number, start_date, skip_weekends)
    /\ calls' = Append(calls, "day_to_date")
    /\ pc' = "date_returned"
    /\ UNCHANGED <<activities, errors, has_cycle, order, critical, result,
                   day_number, start_date, skip_weekends, wbs, edits>>

NextDate == CallDayToDate

SpecDate == InitDate /\ [][NextDate]_vars

\* ------------------------------------------------------------------------
\* The WBS tree, built and read (test_wbs_structure), with durations edited
\* between reads
\* ------------------------------------------------------------------------
MaxWbsActs == 3       \* activities in a list
MaxWbsDur == 4        \* largest duration
MaxWbsEdits == 2      \* duration edits after the tree is built

WbsCodes == {"", "01", "03", "99"}
WbsDurations == 0..MaxWbsDur

InitWbs ==
    /\ \E n \in 0..MaxWbsActs :
         \E c \in [1..n -> WbsCodes], d \in [1..n -> WbsDurations] :
            activities = [i \in 1..n |->
                            [Activity(IdPool[i], d[i], <<>>) EXCEPT !.wbs = c[i]]]
    /\ pc = "wbs_start"
    /\ errors = <<>>
    /\ has_cycle = FALSE
    /\ order = <<>>
    /\ critical = <<>>
    /\ result = NoResult
    /\ calls = <<>>
    /\ day_number = 0
    /\ start_date = TestMonday
    /\ skip_weekends = TRUE
    /\ date = start_date
    /\ wbs = NoTree
    /\ edits = 0

CallBuildWbs ==
    /\ pc = "wbs_start"
    /\ wbs' = build_wbs(activities)
    /\ calls' = Append(calls, "build_wbs")
    /\ pc' = "wbs_built"
    /\ UNCHANGED <<activities, errors, has_cycle, order, critical, result,
                   calendar_vars, edits>>

\* act.duration = d on an object the tree holds
EditDuration ==
    /\ pc = "wbs_built"
    /\ edits < MaxWbsEdits
    /\ \E i \in 1..Len(activities), d \in WbsDurations :
         /\ d # activities[i].duration
         /\ activities' = [activities EXCEPT ![i].duration = d]
    /\ edits' = edits + 1
    /\ UNCHANGED <<pc, errors, has_cycle, order, critical, result, calls,
                   calendar_vars, wbs>>

NextWbs ==
    \/ CallBuildWbs
    \/ EditDuration

SpecWbs == InitWbs /\ [][NextWbs]_vars

\* ------------------------------------------------------------------------
\* compute_cpm run again on the same Activity objects, with their
\* predecessor lists edited between the runs
\* ------------------------------------------------------------------------
MaxRerunActs == 3     \* activities in a list
MaxRerunEdges == 2    \* predecessor entries of the list at the start
MaxRerunSteps == 4    \* edits and runs in a behaviour

RerunEntries(n) == {PredEntry(id, "FS", 0) : id \in IdsOf(n)}

\* s without its j-th element (del s[j])
RemoveAt(s, j) == [k \in 1..(Len(s) - 1) |-> IF k < j THEN s[k] ELSE s[k + 1]]

InitRerun ==
    /\ \E n \in 1..MaxRerunActs :
         IsActivityList(activities, n, {1}, RerunEntries(n), MaxRerunEdges)
    /\ pc = "rerun_start"
    /\ errors = <<>>
    /\ has_cycle = FALSE
    /\ order = <<>>
    /\ critical = <<>>
    /\ result = NoResult
    /\ calls = <<>>
    /\ day_number = 0
    /\ start_date = TestMonday
    /\ skip_weekends = TRUE
    /\ date = start_date
    /\ wbs = NoTree
    /\ edits = 0

\* compute_cpm(activities) on the objects as the last run and the edits
\* left them
RerunComputeCpm ==
    /\ pc \in {"rerun_start", "rerun_edited", "rerun_computed"}
    /\ Len(calls) < MaxRerunSteps
    /\ activities' = compute_cpm(activities)
    /\ order' = CpmOrder(activities)
    /\ calls' = Append(calls, "compute_cpm")
    /\ pc' = "rerun_computed"
    /\ UNCHANGED <<errors, has_cycle, critical, result, calendar_vars, wbs, edits>>

\* add_predecessor(activity, pred_id)
AddPredecessor ==
    /\ pc \in {"rerun_start", "rerun_edited", "rerun_computed"}
    /\ Len(calls) < MaxRerunSteps
    /\ \E i \in 1..Len(activities), pid \in IdsOf(Len(activities)) :
         activities' = [activities EXCEPT
                          ![i].predecessors = Append(@, PredEntry(pid, "FS", 0))]
    /\ calls' = Append(calls, "add_predecessor")
    /\ edits' = edits + 1
    /\ pc' = "rerun_edited"
    /\ UNCHANGED <<errors, has_cycle, order, critical, result, calendar_vars, wbs>>

\* del activity.predecessors[j]
RemovePredecessor ==
    /\ pc \in {"rerun_start", "rerun_edited", "rerun_computed"}
    /\ Len(calls) < MaxRerunSteps
    /\ \E i \in 1..Len(activities) : \E j \in 1..Len(activities[i].predecessors) :
         activities' = [activities EXCEPT ![i].predecessors = RemoveAt(@, j)]
    /\ calls' = Append(calls, "del predecessors[j]")
    /\ edits' = edits + 1
    /\ pc' = "rerun_edited"
    /\ UNCHANGED <<errors, has_cycle, order, critical, result, calendar_vars, wbs>>

NextRerun ==
    \/ RerunComputeCpm
    \/ AddPredecessor
    \/ RemovePredecessor

SpecRerun == InitRerun /\ [][NextRerun]_vars

\* ------------------------------------------------------------------------
\* The calendar side: day_to_date called on its own, and compute_cpm
\* followed by activities_to_export
\* ------------------------------------------------------------------------
MaxExportActs == 2    \* activities in an exported list
MaxExportEdges == 1   \* predecessor entries in it

InitExport ==
    /\ \/ /\ pc = "calendar"
          /\ activities = <<>>
          /\ day_number \in 0..MaxOffset
          /\ skip_weekends \in BOOLEAN
       \/ /\ pc = "export_start"
          /\ \E n \in 1..MaxExportActs :
                IsActivityList(activities, n, Durations, TimingEntries(n),
                               MaxExportEdges)
          /\ day_number = 0
          /\ skip_weekends = TRUE
    /\ start_date \in StartDates
    /\ date = start_date
    /\ errors = <<>>
    /\ has_cycle = FALSE
    /\ order = <<>>
    /\ critical = <<>>
    /\ result = NoResult
    /\ calls = <<>>
    /\ wbs = NoTree
    /\ edits = 0

ExportComputeCpm ==
    /\ pc = "export_start"
    /\ activities' = compute_cpm(activities)
    /\ order' = CpmOrder(activities)
    /\ calls' = Append(calls, "compute_cpm")
    /\ pc' = "export_computed"
    /\ UNCHANGED <<errors, has_cycle, critical, result, calendar_vars, wbs, edits>>

CallActivitiesToExport ==
    /\ pc = "export_computed"
    /\ result' = [export_data |-> activities_to_export(activities, start_date)]
    /\ calls' = Append(calls, "activities_to_export")
    /\ pc' = "exported"
    /\ UNCHANGED <<activities, errors, has_cycle, order, critical,
                   calendar_vars, wbs, edits>>

NextExport ==
    \/ CallDayToDate
    \/ ExportComputeCpm
    \/ CallActivitiesToExport

SpecExport == InitExport /\ [][NextExport]_vars

\* ------------------------------------------------------------------------
\* Vocabulary of the properties, defined without the engine's operators
\* ------------------------------------------------------------------------
Positions(acts) == 1..Len(acts)
ListIds(acts) == {acts[i].activity_id : i \in Positions(acts)}
EntriesOf(act) == 1..Len(act.predecessors)

\* The predecessor graph: an edge from an activity to every activity of the
\* list that one of its predecessor entries names.
PredEdges(acts) ==
    {e \in UNION {{<<acts[i].activity_id, acts[i].predecessors[j].activity_id>> :
                      j \in EntriesOf(acts[i])} : i \in Positions(acts)} :
        e[2] \in ListIds(acts)}

\* The ids reachable from a set of ids along at most k further edges.
RECURSIVE ReachWithin(_, _, _)
ReachWithin(edges, from, k) ==
    IF k = 0 THEN from
    ELSE ReachWithin(edges, from \cup {e[2] : e \in {d \in edges : d[1] \in from}},
                     k - 1)

\* Some activity reaches itself along one edge or more.
HasCycle(acts) ==
    LET edges == PredEdges(acts) IN
    \E e \in edges : e[1] \in ReachWithin(edges, {e[2]}, Len(acts))

\* Every entry names an activity of the list other than its owner, with one of
\* the four relationship types.
EntryMissing(acts, i, j) ==
    acts[i].predecessors[j].activity_id \notin ListIds(acts)
EntrySelf(acts, i, j) ==
    acts[i].predecessors[j].activity_id = acts[i].activity_id
EntryBadRel(acts, i, j) ==
    acts[i].predecessors[j].rel_type \notin {"FS", "SS", "FF", "SF"}

WellFormed(acts) ==
    \A i \in Positions(acts) : \A j \in EntriesOf(acts[i]) :
        ~EntryMissing(acts, i, j) /\ ~EntrySelf(acts, i, j)
        /\ ~EntryBadRel(acts, i, j)

ValidAcyclic(acts) == WellFormed(acts) /\ ~HasCycle(acts)

\* Some activity names the same predecessor in two entries.
HasDuplicateEntry(acts) ==
    \E i \in Positions(acts) : \E j, k \in EntriesOf(acts[i]) :
        j # k /\ acts[i].predecessors[j].activity_id
                 = acts[i].predecessors[k].activity_id

Called(f) == InSeq(f, calls)
AfterCompute == Called("compute_cpm")

PositionIn(s, x) == CHOOSE k \in 1..Len(s) : s[k] = x

\* No activity of the list names this one as predecessor.
Terminal(acts, i) ==
    \A e \in PredEdges(acts) : e[2] # acts[i].activity_id

\* ------------------------------------------------------------------------
\* Properties
\* ------------------------------------------------------------------------

\* C1: after compute_cpm on a list that passes validation, has no cycle and
\* has non-negative durations, every activity has total_float >= 0, that is
\* late_start >= early_start.
C1_FloatNonNegative ==
    (/\ AfterCompute
     /\ ValidAcyclic(activities)
     /\ \A i \in Positions(activities) : activities[i].duration >= 0)
    => \A i \in Positions(activities) :
            /\ activities[i].total_float >= 0
            /\ activities[i].late_start >= activities[i].early_start

\* C2: after compute_cpm every activity has early_finish - early_start and
\* late_finish - late_start equal to its duration, hence start <= finish on
\* both sides when the duration is not negative.
C2_FinishMinusStartIsDuration ==
    AfterCompute =>
        \A i \in Positions(activities) :
            LET a == activities[i] IN
            /\ a.early_finish - a.early_start = a.duration
            /\ a.late_finish - a.late_start = a.duration
            /\ a.duration >= 0 => /\ a.early_start <= a.early_finish
                                  /\ a.late_start <= a.late_finish

\* Case of C2: compute_cpm has run on a list in which an activity of non-zero
\* duration starts after day 0 and another one has a negative duration.
C2_Witness ==
    /\ AfterCompute
    /\ \E i, k \in Positions(activities) :
        /\ activities[i].duration > 0
        /\ activities[i].early_start > 0
        /\ activities[k].duration < 0

\* C3: on a list that passes validation and has no cycle, the order the sort
\* returns places every activity after every activity its predecessor list
\* names.
C3_OrderRespectsPredecessors ==
    (AfterCompute /\ ValidAcyclic(activities))
    => \A e \in PredEdges(activities) :
            PositionIn(order, e[2]) < PositionIn(order, e[1])

\* C4: detect_cycles returns true exactly when the predecessor graph has a
\* directed cycle; a self-loop is a cycle, and an entry naming an id that is
\* absent from the list is no edge.
C4_DetectCyclesIffCycle ==
    Called("detect_cycles") => (has_cycle <=> HasCycle(activities))

\* Case of C4: detect_cycles has found a cycle that is no self-loop, in a list
\* which also names an absent id.
C4_Witness ==
    /\ pc = "detect_returned"
    /\ has_cycle
    /\ \A i \in Positions(activities) : \A j \in EntriesOf(activities[i]) :
            ~EntrySelf(activities, i, j)
    /\ \E i \in Positions(activities) : \E j \in EntriesOf(activities[i]) :
            EntryMissing(activities, i, j)

\* The checks an activity list violates: (position, entry, check).
Violations(acts) ==
    UNION {UNION {
        (IF EntryMissing(acts, i, j) THEN {<<i, j, "nonexistent">>} ELSE {})
        \cup (IF EntrySelf(acts, i, j) THEN {<<i, j, "self">>} ELSE {})
        \cup (IF EntryBadRel(acts, i, j) THEN {<<i, j, "rel_type">>} ELSE {})
        : j \in EntriesOf(acts[i])} : i \in Positions(acts)}

\* C5: validate_predecessors returns the empty list exactly when every entry
\* names an activity of the list other than its owner with a relationship
\* type among FS, SS, FF, SF; otherwise it returns one message for each check
\* each entry violates, each naming the entry's owner.
C5_ValidateReportsEveryViolation ==
    Called("validate_predecessors") =>
        /\ errors = <<>> <=> WellFormed(activities)
        /\ Len(errors) = Cardinality(Violations(activities))
        /\ \A v \in Violations(activities) :
            \E k \in 1..Len(errors) :
                /\ errors[k][2] = activities[v[1]].activity_id
                /\ v[3] = "nonexistent" =>
                    errors[k] = MsgNonexistent(activities[v[1]].activity_id,
                        activities[v[1]].predecessors[v[2]].activity_id)
                /\ v[3] = "self" =>
                    errors[k] = MsgSelf(activities[v[1]].activity_id)
                /\ v[3] = "rel_type" =>
                    errors[k] = MsgBadRel(activities[v[1]].activity_id,
                        activities[v[1]].predecessors[v[2]].rel_type)

\* Case of C5: one entry violates two checks, another entry a third one.
C5_Witness ==
    /\ pc = "validate_returned"
    /\ Len(errors) = 3
    /\ \E i \in Positions(activities) : \E j \in EntriesOf(activities[i]) :
        EntryMissing(activities, i, j) /\ EntryBadRel(activities, i, j)
    /\ \E i \in Positions(activities) : \E j \in EntriesOf(activities[i]) :
        EntrySelf(activities, i, j)

\* Three activities, each with one well-formed entry naming another one, no
\* two naming the same: the edges are A -> B -> C -> A.
IsThreeCycle(acts) ==
    /\ Len(acts) = 3
    /\ WellFormed(acts)
    /\ \A i \in Positions(acts) : Len(acts[i].predecessors) = 1
    /\ \A i, k \in Positions(acts) :
        i # k => acts[i].predecessors[1].activity_id
                 # acts[k].predecessors[1].activity_id

\* C6: on a list whose predecessor edges form the cycle A -> B -> C -> A,
\* detect_cycles returns true, validate returns a non-empty error list, and
\* compute fails instead of running its passes and returning.
C6_CycleRefused ==
    IsThreeCycle(activities) =>
        /\ Called("detect_cycles") => has_cycle
        /\ Called("validate_predecessors") => errors # <<>>
        /\ ~Called("compute_cpm")

\* C7: compute_cpm never returns a schedule in which an activity carries a
\* negative total_float: it raises instead.
C7_NegativeFloatRaised ==
    AfterCompute =>
        \A i \in Positions(activities) : activities[i].total_float >= 0

\* The calls of one generate_schedule run, in order.
GsCalls ==
    <<"validate_predecessors", "detect_cycles", "compute_cpm",
      "get_critical_path", "build_wbs", "activities_to_export">>

IsPrefix(s, t) == Len(s) <= Len(t) /\ \A k \in 1..Len(s) : s[k] = t[k]

InGenerateSchedule ==
    pc \in {"gs_validated", "gs_cycle_checked", "gs_computed", "gs_critical",
            "gs_returned"}

\* C8: generate_schedule calls validate_predecessors, detect_cycles and
\* compute_cpm in this order; a run in which validate_predecessors returned
\* an error or detect_cycles returned true never reaches compute_cpm or a
\* later step, and returns a result with the key "error".
C8_NoComputeAfterFailedCheck ==
    InGenerateSchedule =>
        /\ IsPrefix(calls, GsCalls)
        /\ (errors # <<>> \/ has_cycle) =>
            /\ ~Called("compute_cpm")
            /\ Len(calls) <= 2
            /\ pc = "gs_returned"
            /\ "error" \in DOMAIN result
        /\ AfterCompute => ValidAcyclic(activities)

\* Case of C8: generate_schedule has returned the cycle error.
C8_Witness ==
    /\ pc = "gs_returned"
    /\ has_cycle
    /\ calls = <<"validate_predecessors", "detect_cycles">>
    /\ result = [error |-> "Circular dependency detected"]

\* The activities of a list with zero float, in list order.
ZeroFloat(acts) == SelectSeq(acts, LAMBDA a : a.total_float = 0)

\* C9: after compute_cpm, is_critical is (total_float = 0) for every activity,
\* and get_critical_path returns exactly the activities with total_float = 0,
\* in list order.
C9_CriticalIffZeroFloat ==
    /\ AfterCompute =>
        \A i \in Positions(activities) :
            activities[i].is_critical <=> activities[i].total_float = 0
    /\ Called("get_critical_path") => critical = ZeroFloat(activities)

\* Case of C9: get_critical_path has returned some of the activities, not all,
\* and an activity it left out has negative float.
C9_Witness ==
    /\ pc = "critical_returned"
    /\ critical # <<>>
    /\ \E i \in Positions(activities) : activities[i].total_float < 0
    /\ \E i \in Positions(activities) : activities[i].total_float > 0

\* C10: after compute_cpm on a non-empty valid acyclic list (of non-negative
\* durations, as the data model has them), at least one activity with no
\* successors has total_float = 0.
C10_TerminalZeroFloat ==
    (/\ AfterCompute
     /\ activities # <<>>
     /\ ValidAcyclic(activities)
     /\ \A i \in Positions(activities) : activities[i].duration >= 0)
    => \E i \in Positions(activities) :
            /\ Terminal(activities, i)
            /\ activities[i].total_float = 0

\* The largest early_finish of a list.
LargestEarlyFinish(acts) ==
    CHOOSE m \in {acts[i].early_finish : i \in Positions(acts)} :
        \A i \in Positions(acts) : acts[i].early_finish <= m

\* C10, amended: after compute_cpm on a non-empty valid acyclic list, some
\* activity has no successors, and every activity with no successors has
\* total_float = project_finish - early_finish: zero exactly when its
\* early_finish is the project finish.
C10_TerminalFloatIsFinishGap ==
    (AfterCompute /\ activities # <<>> /\ ValidAcyclic(activities))
    => /\ \E i \in Positions(activities) : Terminal(activities, i)
       /\ \A i \in Positions(activities) :
            Terminal(activities, i) =>
                /\ activities[i].successors = <<>>
                /\ activities[i].total_float =
                    LargestEarlyFinish(activities) - activities[i].early_finish
                /\ activities[i].total_float = 0 <=>
                    activities[i].early_finish = LargestEarlyFinish(activities)

\* Case of C10: compute_cpm has run on a valid acyclic list without duplicate
\* entries in which no activity without successors has zero float.
C10_Witness ==
    /\ AfterCompute
    /\ activities # <<>>
    /\ ValidAcyclic(activities)
    /\ ~HasDuplicateEntry(activities)
    /\ \A i \in Positions(activities) : activities[i].duration >= 0
    /\ \A i \in Positions(activities) :
        Terminal(activities, i) => activities[i].total_float > 0

\* C11 (determinism of compute_cpm on equal fresh copies) is not stated:
\* compute_cpm is an operator here, and two evaluations of one operator on
\* equal arguments agree in every model.

\* The working days after `from`, up to and including `to`.
WorkingDays(from, to) == {d \in (from + 1)..to : Weekday(d) < 5}

\* C12: with skip_weekends, day_to_date(0, start) is start when start is a
\* weekday and the next working day when start is a Saturday or a Sunday: it
\* is never a weekend date.
C12_OffsetZeroNeverWeekend ==
    (pc = "date_returned" /\ skip_weekends /\ day_number = 0)
    => /\ Weekday(date) < 5
       /\ Weekday(start_date) < 5 => date = start_date
       /\ Weekday(start_date) >= 5 =>
            /\ date > start_date
            /\ WorkingDays(start_date, date) = {date}

\* C13: with skip_weekends and n >= 1, day_to_date(n, start) is the first
\* date d after start with exactly n working days in (start, d]; it is no
\* Saturday or Sunday, and from the Monday of the tests offset 5 is the
\* Monday after.
C13_NthWorkingDayAfterStart ==
    (pc = "date_returned" /\ skip_weekends /\ day_number >= 1)
    => /\ date > start_date
       /\ Weekday(date) < 5
       /\ Cardinality(WorkingDays(start_date, date)) = day_number
       /\ \A d \in (start_date + 1)..(date - 1) :
            Cardinality(WorkingDays(start_date, d)) < day_number
       /\ (start_date = TestMonday /\ day_number = 5) => date = TestMonday + 7

\* Case of C13: offset 5 from the Monday of the tests has been mapped across
\* a weekend.
C13_Witness ==
    /\ pc = "date_returned"
    /\ skip_weekends
    /\ start_date = TestMonday
    /\ day_number = 5
    /\ date = TestMonday + 7

\* The list positions whose activity belongs to division `code`.
Members(code) == {i \in 1..Len(activities) : DivOf(activities[i]) = code}

RECURSIVE DurationSum(_)
DurationSum(S) ==
    IF S = {} THEN 0
    ELSE LET i == CHOOSE x \in S : TRUE
         IN  activities[i].duration + DurationSum(S \ {i})

\* C14: whenever the tree of build_wbs is read, the root's activity_count is
\* the number of activities and its total_duration the sum of all durations,
\* and each division node's activity_count and total_duration are the count
\* and the duration sum of the activities of its code (an empty code counts
\* as "01"), with the durations the activities have at the time of the read.
C14_RollupMatchesActivities ==
    pc = "wbs_built"
    => /\ activity_count(wbs) = Len(activities)
       /\ total_duration(wbs, activities) = DurationSum(1..Len(activities))
       /\ \A k \in 1..Len(wbs.children) :
            LET node == wbs.children[k]
            IN  /\ activity_count(node) = Cardinality(Members(node.code))
                /\ total_duration(node, activities) = DurationSum(Members(node.code))
       /\ \A i \in 1..Len(activities) :
            \E k \in 1..Len(wbs.children) :
                wbs.children[k].code = DivOf(activities[i])

\* Case of C14: after a duration edit, division "01" holds two activities, one
\* of them with the empty code, of durations 3 and 4, and reads 2 and 7.
C14_Witness ==
    /\ pc = "wbs_built"
    /\ edits >= 1
    /\ \E k \in 1..Len(wbs.children) :
         LET node == wbs.children[k]
         IN  /\ node.code = "01"
             /\ activity_count(node) = 2
             /\ total_duration(node, activities) = 7
             /\ \E i, j \in Members("01") :
                  /\ activities[i].wbs = ""
                  /\ activities[i].duration = 3
                  /\ activities[j].duration = 4

\* The ids of the activities whose predecessor list names `id` now.
NamedBy(id) ==
    {activities[i].activity_id :
        i \in {k \in 1..Len(activities) :
                 \E j \in 1..Len(activities[k].predecessors) :
                    activities[k].predecessors[j].activity_id = id}}

SameDeclared(a, b) ==
    /\ a.activity_id = b.activity_id
    /\ a.activity_name = b.activity_name
    /\ a.wbs = b.wbs
    /\ a.duration = b.duration
    /\ a.predecessors = b.predecessors
    /\ a.is_milestone = b.is_milestone

\* C16: a step of compute_cpm leaves the list's length and order and every
\* activity's activity_id, activity_name, wbs, duration, predecessors and
\* is_milestone as they were (it may change successors, early_start,
\* early_finish, late_start, late_finish, total_float, is_critical only);
\* a step of validate_predecessors, detect_cycles, get_critical_path or
\* build_wbs leaves the activities unchanged altogether.
C16_ComputeChangesOnlyDerivedFields ==
    [][/\ Len(activities') = Len(activities)
       /\ \A i \in 1..Len(activities) :
            SameDeclared(activities[i], activities'[i])
       /\ (calls' # calls /\ calls'[Len(calls')] # "compute_cpm")
            => activities' = activities]_vars

\* Case of C16: generate_schedule has run to its end (validation, cycle
\* check, compute_cpm, get_critical_path, build_wbs) on a list where
\* compute_cpm had successors, dates, float and the critical flag to set.
C16_Witness ==
    /\ pc = "gs_returned"
    /\ Called("build_wbs")
    /\ wbs # NoTree
    /\ \E i, j \in Positions(activities) :
         /\ activities[i].successors # <<>>
         /\ activities[i].is_critical
         /\ activities[j].predecessors # <<>>
         /\ activities[j].early_start > 0
         /\ activities[j].late_finish > 0
         /\ activities[j].total_float > 0

\* The predecessor entries of activity i that name an activity of the list.
InMapEntries(acts, i) ==
    {j \in EntriesOf(acts[i]) :
        acts[i].predecessors[j].activity_id \in ListIds(acts)}

\* The activities that leave the zero-in-degree queue: those whose entries
\* naming listed activities name, one each, activities that leave it too.
RECURSIVE QueueReachedWithin(_, _)
QueueReachedWithin(acts, n) ==
    IF n = 0 THEN {}
    ELSE LET R == QueueReachedWithin(acts, n - 1)
         IN  {acts[i].activity_id :
                i \in {k \in Positions(acts) :
                         Cardinality(InMapEntries(acts, k)) =
                         Cardinality({acts[k].predecessors[j].activity_id :
                                         j \in InMapEntries(acts, k)} \cap R)}}

QueueReached(acts) == QueueReachedWithin(acts, Len(acts))

\* The ids of the list outside S, in list order.
ListOrderOutside(acts, S) ==
    SelectSeq([i \in 1..Len(acts) |-> acts[i].activity_id],
              LAMBDA id : id \notin S)

\* C17: on every non-empty list (ids are unique; cyclic or not, with or
\* without entries naming absent activities), the order _topological_sort
\* returned has every activity id exactly once: first the activities that
\* left the zero-in-degree queue, then all the others in list order.
C17_SortReturnsEachIdOnce ==
    (AfterCompute /\ activities # <<>>)
    => LET reached == QueueReached(activities)
           p == Cardinality(reached)
       IN  /\ Len(order) = Len(activities)
           /\ \A id \in ListIds(activities) :
                Cardinality({k \in 1..Len(order) : order[k] = id}) = 1
           /\ {order[k] : k \in 1..p} = reached
           /\ SubSeq(order, p + 1, Len(order))
                = ListOrderOutside(activities, reached)

\* Case of C17: the sort ran on a list where one activity left the queue and
\* two did not, one of them for a cycle.
C17_Witness ==
    /\ AfterCompute
    /\ HasCycle(activities)
    /\ Cardinality(QueueReached(activities)) = 1
    /\ Len(ListOrderOutside(activities, QueueReached(activities))) = 2
    /\ Len(order) = 3

\* The activity of the list that a predecessor entry names.
NamedActivity(acts, entry) == acts[ActMap(acts)[entry.activity_id]]

\* C18: after compute_cpm on a list that passes validation and has no cycle,
\* an activity without predecessors has early_start = 0, and an activity B
\* whose only predecessor entry names A with FS, SS or FF has early_start =
\* A.early_finish + lag (FS), A.early_start + lag (SS) or A.early_finish +
\* lag - B.duration (FF) whenever that candidate is not negative.
C18_SingleEntryEarlyStart ==
    (AfterCompute /\ ValidAcyclic(activities))
    => \A i \in Positions(activities) :
         LET b == activities[i] IN
         /\ b.predecessors = <<>> => b.early_start = 0
         /\ (Len(b.predecessors) = 1
             /\ b.predecessors[1].rel_type \in {"FS", "SS", "FF"})
            => LET e == b.predecessors[1]
                   a == NamedActivity(activities, e)
                   candidate ==
                       IF e.rel_type = "FS" THEN a.early_finish + e.lag
                       ELSE IF e.rel_type = "SS" THEN a.early_start + e.lag
                       ELSE a.early_finish + e.lag - b.duration
               IN  candidate >= 0 => b.early_start = candidate

\* C19: after compute_cpm on a list that passes validation, has no cycle, no
\* repeated entry and no negative duration, an activity B whose only
\* predecessor entry names A with SF has early_start = A.early_start + lag -
\* B.duration whenever that candidate is not negative.
C19_StartToFinishCandidate ==
    (/\ AfterCompute
     /\ ValidAcyclic(activities)
     /\ ~HasDuplicateEntry(activities)
     /\ \A i \in Positions(activities) : activities[i].duration >= 0)
    => \A i \in Positions(activities) :
         LET b == activities[i] IN
         (Len(b.predecessors) = 1 /\ b.predecessors[1].rel_type = "SF")
         => LET e == b.predecessors[1]
                a == NamedActivity(activities, e)
                candidate == a.early_start + e.lag - b.duration
            IN  candidate >= 0 => b.early_start = candidate

\* The candidate early starts of b, one per FS, SS or FF entry.
Candidates(acts, b) ==
    {LET e == b.predecessors[j]
         a == NamedActivity(acts, e)
     IN  IF e.rel_type = "FS" THEN a.early_finish + e.lag
         ELSE IF e.rel_type = "SS" THEN a.early_start + e.lag
         ELSE a.early_finish + e.lag - b.duration
     : j \in EntriesOf(b)}

\* C20: after compute_cpm on a list that passes validation, has no cycle, no
\* repeated entry, no SF entry and no negative duration, every activity with
\* predecessors has early_start equal to the largest of the candidates of
\* its entries, also when all of them are negative.
C20_EarlyStartIsMaxCandidate ==
    (/\ AfterCompute
     /\ ValidAcyclic(activities)
     /\ ~HasDuplicateEntry(activities)
     /\ \A i \in Positions(activities) :
          /\ activities[i].duration >= 0
          /\ \A j \in EntriesOf(activities[i]) :
               activities[i].predecessors[j].rel_type # "SF")
    => \A i \in Positions(activities) :
         LET b == activities[i] IN
         b.predecessors # <<>>
         => /\ b.early_start \in Candidates(activities, b)
            /\ \A c \in Candidates(activities, b) : c <= b.early_start

\* The successor edges of the activity at position i: the pairs <<k, j>> with
\* entry j of the activity at position k naming it.
SuccessorEdges(acts, i) ==
    {e \in Positions(acts) \X (1..MaxEdges) :
        /\ e[2] \in EntriesOf(acts[e[1]])
        /\ acts[e[1]].predecessors[e[2]].activity_id = acts[i].activity_id}

NoNegativeDuration(acts) == \A i \in Positions(acts) : acts[i].duration >= 0

HasRelation(acts, rel) ==
    \E i \in Positions(acts) : \E j \in EntriesOf(acts[i]) :
        acts[i].predecessors[j].rel_type = rel

\* The late finish the successor edge e allows the activity at position i:
\* the inverse of the forward formula of the relation of the entry.
InverseCandidate(acts, i, e) ==
    LET succ == acts[e[1]]
        entry == succ.predecessors[e[2]]
    IN  IF entry.rel_type = "FS" THEN succ.late_start - entry.lag
        ELSE IF entry.rel_type = "SS"
             THEN succ.late_start - entry.lag + acts[i].duration
        ELSE IF entry.rel_type = "FF" THEN succ.late_finish - entry.lag
        ELSE succ.late_finish - entry.lag + acts[i].duration

\* C21: after compute_cpm on a list that passes validation, has no cycle, no
\* negative duration and no SF entry, the late_finish of every activity with
\* a successor edge is the smallest of the candidates of its successor edges,
\* and nothing but these candidates.
C21_LateFinishIsMinCandidate ==
    (/\ AfterCompute
     /\ ValidAcyclic(activities)
     /\ NoNegativeDuration(activities)
     /\ ~HasRelation(activities, "SF"))
    => \A i \in Positions(activities) :
         LET cands == {InverseCandidate(activities, i, e) :
                          e \in SuccessorEdges(activities, i)}
         IN  cands # {}
             => /\ activities[i].late_finish \in cands
                /\ \A c \in cands : activities[i].late_finish <= c

\* C22: after compute_cpm on a list that passes validation, has no cycle, no
\* repeated entry and no negative duration, an activity with one successor
\* edge has for late_finish the candidate of that edge, unless project_finish
\* is smaller: succ.late_start - lag for FS, succ.late_start - lag + own
\* duration for SS, succ.late_finish - lag for FF and succ.late_finish - lag
\* + own duration for SF.
C22_CandidateInvertsRelation ==
    (/\ AfterCompute
     /\ ValidAcyclic(activities)
     /\ ~HasDuplicateEntry(activities)
     /\ NoNegativeDuration(activities))
    => \A i \in Positions(activities) :
         \A e \in SuccessorEdges(activities, i) :
            (/\ SuccessorEdges(activities, i) = {e}
             /\ InverseCandidate(activities, i, e)
                    <= LargestEarlyFinish(activities))
            => activities[i].late_finish = InverseCandidate(activities, i, e)

\* C23: after compute_cpm on a non-empty list, with project_finish the
\* largest early_finish of the list, every activity with no successors has
\* late_finish = project_finish and every activity has late_finish <=
\* project_finish; generate_schedule reports that project_finish as the
\* project duration.
C23_ProjectFinishAnchors ==
    /\ (AfterCompute /\ activities # <<>>)
       => \A i \in Positions(activities) :
            /\ activities[i].late_finish <= LargestEarlyFinish(activities)
            /\ (activities[i].successors = <<>> \/ Terminal(activities, i))
               => activities[i].late_finish = LargestEarlyFinish(activities)
    /\ (pc = "gs_returned" /\ AfterCompute /\ activities # <<>>)
       => result.project_duration_days = LargestEarlyFinish(activities)

\* Case of C23: compute_cpm has run on a list in which the last activity
\* finishes before the project does, an activity without successors sits at
\* project_finish and another one has its late_finish below it.
C23_Witness ==
    /\ AfterCompute
    /\ Len(activities) >= 2
    /\ activities[Len(activities)].early_finish < LargestEarlyFinish(activities)
    /\ \E i, j \in Positions(activities) :
         /\ activities[i].successors = <<>>
         /\ activities[i].late_finish = LargestEarlyFinish(activities)
         /\ activities[j].successors # <<>>
         /\ activities[j].late_finish < LargestEarlyFinish(activities)

\* The activity at position i has no predecessor entry and no activity of the
\* list names it.
Disconnected(acts, i) == acts[i].predecessors = <<>> /\ Terminal(acts, i)

\* C24: after compute_cpm, an activity with an empty predecessor list that no
\* activity names as predecessor has early_start = 0, late_finish =
\* project_finish and total_float = project_finish - duration, which is not
\* zero exactly when project_finish is larger than its duration.
C24_DisconnectedActivity ==
    AfterCompute
    => \A i \in Positions(activities) :
         Disconnected(activities, i)
         => LET a == activities[i]
                project_finish == LargestEarlyFinish(activities)
            IN  /\ a.early_start = 0
                /\ a.late_finish = project_finish
                /\ a.total_float = project_finish - a.duration
                /\ a.total_float # 0 <=> project_finish > a.duration

\* Case of C24: compute_cpm has run on a list with a chain and, beside it, a
\* disconnected activity of non-zero duration that ends before the project
\* does and has positive float.
C24_Witness ==
    /\ AfterCompute
    /\ PredEdges(activities) # {}
    /\ \E i \in Positions(activities) :
         /\ Disconnected(activities, i)
         /\ activities[i].duration > 0
         /\ activities[i].total_float > 0
         /\ ~activities[i].is_critical

\* The ids of the activities that lie on a cycle of the predecessor graph.
OnCycle(acts) ==
    LET edges == PredEdges(acts)
    IN  {e[1] : e \in {d \in edges : d[1] \in ReachWithin(edges, {d[2]}, Len(acts))}}

\* C25: every message validate_predecessors returns contains the id of an
\* activity of the list that has a bad entry, and when generate_schedule
\* returns for a cycle its result carries a list of messages one of which
\* contains the id of an activity on a cycle.
C25_FailuresNameActivities ==
    /\ Called("validate_predecessors")
       => \A k \in 1..Len(errors) :
            \E v \in Violations(activities) :
                InSeq(activities[v[1]].activity_id, errors[k])
    /\ (pc = "gs_returned" /\ Called("detect_cycles") /\ has_cycle)
       => /\ "errors" \in DOMAIN result
          /\ \E k \in 1..Len(result.errors) :
                \E id \in OnCycle(activities) : InSeq(id, result.errors[k])

\* C26: after compute_cpm on a non-empty list that passes validation, has no
\* cycle and no negative duration, every activity whose early_finish is
\* project_finish has late_finish = project_finish and total_float = 0, some
\* activity is critical and get_critical_path is not empty.
C26_SomeActivityCritical ==
    (/\ AfterCompute
     /\ activities # <<>>
     /\ ValidAcyclic(activities)
     /\ NoNegativeDuration(activities))
    => /\ \A i \in Positions(activities) :
            activities[i].early_finish = LargestEarlyFinish(activities)
            => /\ activities[i].late_finish = LargestEarlyFinish(activities)
               /\ activities[i].total_float = 0
       /\ \E i \in Positions(activities) : activities[i].is_critical
       /\ Called("get_critical_path") => critical # <<>>

\* The critical activities of the list that are the origin of a chain, and
\* those reached from them along entries whose owner is critical.
RECURSIVE CriticalChainWithin(_, _)
CriticalChainWithin(acts, n) ==
    IF n = 0
    THEN {acts[i].activity_id :
            i \in {k \in Positions(acts) :
                     acts[k].is_critical /\ acts[k].early_start = 0}}
    ELSE LET C == CriticalChainWithin(acts, n - 1)
         IN  C \cup {acts[i].activity_id :
                        i \in {k \in Positions(acts) :
                                 /\ acts[k].is_critical
                                 /\ \E j \in EntriesOf(acts[k]) :
                                      acts[k].predecessors[j].activity_id \in C}}

\* C27: after compute_cpm on a list that passes validation, has no cycle and
\* no repeated entry, every critical activity with early_start > 0 has a
\* critical predecessor, and every critical activity is reached from a
\* critical activity with early_start = 0 along critical activities.
C27_CriticalHasCriticalPredecessor ==
    (/\ AfterCompute
     /\ ValidAcyclic(activities)
     /\ ~HasDuplicateEntry(activities))
    => \A i \in Positions(activities) :
         activities[i].is_critical
         => /\ activities[i].early_start > 0
               => \E j \in EntriesOf(activities[i]) :
                     NamedActivity(activities,
                                   activities[i].predecessors[j]).is_critical
            /\ activities[i].activity_id
                 \in CriticalChainWithin(activities, Len(activities))

\* Case of C27: compute_cpm has run on such a list where a critical activity
\* that starts after day 0 has a critical predecessor and one with float.
C27_Witness ==
    /\ AfterCompute
    /\ ValidAcyclic(activities)
    /\ ~HasDuplicateEntry(activities)
    /\ \E i \in Positions(activities) : \E j, k \in EntriesOf(activities[i]) :
         /\ activities[i].is_critical
         /\ activities[i].early_start > 0
         /\ NamedActivity(activities, activities[i].predecessors[j]).is_critical
         /\ NamedActivity(activities, activities[i].predecessors[k]).total_float > 0

\* C28: after compute_cpm on a list that passes validation and has no cycle,
\* the early dates satisfy every FS, SS and FF entry: for an entry of B naming
\* A with lag L, B.early_start >= A.early_finish + L (FS), B.early_start >=
\* A.early_start + L (SS), B.early_finish >= A.early_finish + L (FF).
C28_EarlyDatesSatisfyEntries ==
    (AfterCompute /\ ValidAcyclic(activities))
    => \A i \in Positions(activities) : \A j \in EntriesOf(activities[i]) :
         LET b == activities[i]
             e == b.predecessors[j]
             a == NamedActivity(activities, e)
         IN  /\ e.rel_type = "FS" => b.early_start >= a.early_finish + e.lag
             /\ e.rel_type = "SS" => b.early_start >= a.early_start + e.lag
             /\ e.rel_type = "FF" => b.early_finish >= a.early_finish + e.lag

\* C29: a compute_cpm run that follows a compute_cpm run on the same objects
\* with no edit in between, on a list that passes validation and has no
\* cycle, leaves every successors list and every computed field as the first
\* run left them.
C29_SecondRunChangesNothing ==
    [][(/\ pc = "rerun_computed"
        /\ pc' = "rerun_computed"
        /\ ValidAcyclic(activities))
       => activities' = activities]_vars

\* Date strings of the form YYYY-MM-DD compare as their fields do.
DateBefore(a, b) ==
    \/ a[1] < b[1]
    \/ a[1] = b[1] /\ a[2] < b[2]
    \/ a[1] = b[1] /\ a[2] = b[2] /\ a[3] < b[3]

\* C30: the date day_to_date returned for offset n is not before the date of
\* any offset m <= n from the same start under the same weekend policy, and
\* is after it when m < n; and in every row of activities_to_export for an
\* activity with early_start <= early_finish the early_start date is not
\* after the early_finish date, and is the same date exactly when the
\* duration is zero.
C30_DatesMonotone ==
    /\ pc = "date_returned"
       => \A m \in 0..day_number :
            /\ day_to_date(m, start_date, skip_weekends) <= date
            /\ m < day_number
               => day_to_date(m, start_date, skip_weekends) < date
    /\ pc = "exported"
       => \A k \in 1..Len(result.export_data) :
            LET row == result.export_data[k] IN
            activities[k].early_start <= activities[k].early_finish
            => /\ ~DateBefore(row.early_finish, row.early_start)
               /\ row.early_start = row.early_finish <=> row.duration = 0

\* Case of C30: a row was exported for an activity of duration 1 that starts
\* after day 0 on a Friday and finishes after the weekend.
C30_Witness ==
    /\ pc = "exported"
    /\ \E k \in 1..Len(result.export_data) :
         /\ activities[k].duration = 1
         /\ activities[k].early_start > 0
         /\ Weekday(day_to_date(activities[k].early_start, start_date, TRUE)) = 4
         /\ DateBefore(result.export_data[k].early_start,
                       result.export_data[k].early_finish)

====
